---- MODULE Spec2Model ----
(***************************************************************************)
(* Model of the dictionary database of jp-dict: the Writer (string         *)
(* interning, record accumulation, relevance sort, index construction and  *)
(* serialization), the loader DB::load, the validator DB::check and the    *)
(* search layer over the loaded indexes.                                   *)
(*                                                                         *)
(* Strings are sequences of UTF-8 bytes, as in Rust's String.  Handles and *)
(* indexes are the program's 0-based u32 values; TLA+ sequences are        *)
(* 1-based, so entry h of a Vec is element h + 1 of the sequence.          *)
(***************************************************************************)
EXTENDS Integers, Sequences, FiniteSets, TLC

VARIABLES
    terms,          \* Writer.terms: Vec<TermData>
    kanji,          \* Writer.kanji: Vec<KanjiData>
    tags,           \* Writer.tags: Vec<TagData>
    tag_index,      \* Writer.tag_index: HashMap<String, u32>
    string_list,    \* Writer.string_list: Vec<(u32, u32)>
    string_data,    \* Writer.string_data: String (bytes)
    string_hash,    \* Writer.string_hash: HashMap<String, u32>
    phase,          \* builder lifecycle: "Open", "Sealed" (write consumed self)
    write_result,   \* outcome of Writer::write: "none", "ok", "panic"
    blob,           \* the bytes the sink received from Writer::write
    db,             \* the DB loaded from the written bytes
    check_result,   \* outcome of DB::check: "none", "ok" or the failed assertion
    out,            \* ResultSet.indexes of the caller's result set
    last,           \* the last call, how it ended and its returned value
    binary_search,  \* the slice::binary_search_by the build is linked with
    overflow_checks \* whether the build panics on integer overflow (debug
                    \* profile) or wraps (release profile)

vars == <<terms, kanji, tags, tag_index, string_list, string_data, string_hash,
          phase, write_result, blob, db, check_result, out, last, binary_search,
          overflow_checks>>

writer_vars == <<terms, kanji, tags, tag_index, string_list, string_data, string_hash>>

(***************************************************************************)
(* Bounds of the model.                                                    *)
(***************************************************************************)
\* Records (tags, terms and kanji together) a builder takes.
MaxRecords == 3
\* Terms of the builders whose databases are searched.
MaxSearchTerms == 2

\* i32::MAX, and u32::MAX = 2^32 - 1.  A u32 of 2^31 or more is written as the
\* 32-bit integer of the same bits, that is as the value minus 2^32.
MaxI32 == 2147483647
MaxU32 == -1

(***************************************************************************)
(* Generic helpers on sequences.                                           *)
(***************************************************************************)
Range(s) == {s[i] : i \in DOMAIN s}

Min(a, b) == IF a <= b THEN a ELSE b

\* A sequence written as a function constructor, as the tuple of its elements
\* (TLC otherwise evaluates the constructor again at every application).
Tup(f) == f \o <<>>

\* s[from+1 .. to] in 1-based terms, that is the Rust slice s[from..to].
Slice(s, from, to) == SubSeq(s, from + 1, to)

RECURSIVE Concat(_)
Concat(ss) == IF ss = <<>> THEN <<>> ELSE Head(ss) \o Concat(Tail(ss))

Reverse(s) == Tup([i \in 1..Len(s) |-> s[Len(s) + 1 - i]])

IsPrefix(p, s) == Len(p) <= Len(s) /\ SubSeq(s, 1, Len(p)) = p

IsSuffix(p, s) == Len(p) <= Len(s) /\ SubSeq(s, Len(s) - Len(p) + 1, Len(s)) = p

(***************************************************************************)
(* str::cmp: lexicographic comparison of the UTF-8 bytes.                  *)
(***************************************************************************)
StrCmp(a, b) ==
    LET n == Min(Len(a), Len(b))
        diff == {i \in 1..n : a[i] # b[i]}
    IN  IF diff = {}
        THEN IF Len(a) < Len(b) THEN "Less"
             ELSE IF Len(a) > Len(b) THEN "Greater" ELSE "Equal"
        ELSE LET i == CHOOSE i \in diff : \A j \in diff : i <= j
             IN  IF a[i] < b[i] THEN "Less" ELSE "Greater"

StrLess(a, b) == StrCmp(a, b) = "Less"

StrLeq(a, b) == StrCmp(a, b) # "Greater"

(***************************************************************************)
(* UTF-8 decoding of the strings of the model (one- and two-byte           *)
(* sequences), str::chars and the grapheme clusters of                     *)
(* unicode_segmentation for base characters followed by combining marks.   *)
(***************************************************************************)
IsContinuation(b) == b >= 128 /\ b < 192

\* The byte positions at which a character starts.
CharStarts(s) == {i \in 1..Len(s) : ~IsContinuation(s[i])}

\* The character (as its bytes) starting at position i.
CharAt(s, i) ==
    LET nexts == {j \in CharStarts(s) : j > i}
        stop == IF nexts = {} THEN Len(s) + 1
                ELSE CHOOSE j \in nexts : \A k \in nexts : j <= k
    IN  SubSeq(s, i, stop - 1)

\* The code point of a character given by its bytes.
CodePoint(c) ==
    IF Len(c) = 1 THEN c[1] ELSE (c[1] - 192) * 64 + (c[2] - 128)

\* Grapheme_Extend for the Combining Diacritical Marks block U+0300..U+036F.
IsExtend(c) == CodePoint(c) >= 768 /\ CodePoint(c) <= 879

\* str::chars as the set of code points of s.
CharSet(s) == {CodePoint(CharAt(s, i)) : i \in CharStarts(s)}

\* The byte positions at which an extended grapheme cluster starts: a
\* character that is not Extend, or the first character of the string.
GraphemeStarts(s) ==
    {i \in CharStarts(s) : i = 1 \/ ~IsExtend(CharAt(s, i))}

SetToSortedSeq(S) ==
    Tup([k \in 1..Cardinality(S) |->
        CHOOSE x \in S : Cardinality({y \in S : y < x}) = k - 1])

\* s.graphemes(true) as the sequence of clusters.
Graphemes(s) ==
    LET st == SetToSortedSeq(GraphemeStarts(s))
    IN  Tup([k \in 1..Len(st) |->
            SubSeq(s, st[k], IF k = Len(st) THEN Len(s) ELSE st[k + 1] - 1)])

\* s.graphemes(true).rev().collect::<String>()
RevGraphemes(s) == Concat(Reverse(Graphemes(s)))

(***************************************************************************)
(* slice::sort_by is a stable sort: element i of the input goes after      *)
(* every element that compares less and after the equal elements that      *)
(* precede it in the input.                                                *)
(***************************************************************************)
\* lt[i][j] holds when the comparator returns Less for (s[i], s[j]).
StableRank(lt, i) ==
    Cardinality({j \in 1..Len(lt) : lt[j][i] \/ (~lt[i][j] /\ j < i)})

SortBy(s, lt) ==
    LET rank == Tup([i \in 1..Len(s) |-> StableRank(lt, i)])
    IN  Tup([k \in 1..Len(s) |-> s[CHOOSE i \in 1..Len(s) : rank[i] = k - 1]])

\* A sort that orders by lt but puts equal elements in reverse input order.
SortByReversingTies(s, lt) ==
    LET rank == Tup([i \in 1..Len(s) |->
                    Cardinality({j \in 1..Len(s) :
                        lt[j][i] \/ (~lt[i][j] /\ j > i)})])
    IN  Tup([k \in 1..Len(s) |-> s[CHOOSE i \in 1..Len(s) : rank[i] = k - 1]])

(***************************************************************************)
(* Writer: string arena and interning.                                     *)
(***************************************************************************)
\* The callers' strings: "", "a", "ab", "ba" + U+0301 (b, a, combining acute).
Pool == {<<>>, <<97>>, <<97, 98>>, <<98, 97, 204, 129>>}

\* Writer::string on the arena (list, data).
StringOf(list, data, index) ==
    LET offset == list[index + 1][1]
        length == list[index + 1][2]
        sta == offset
        end == sta + length
    IN  Slice(data, sta, end)

string(index) == StringOf(string_list, string_data, index)

\* An intern that never consults the hash and appends every value.
InternNoLookup(a, value) ==
    LET offset == Len(a.data)
        length == Len(value)
        index == Len(a.list)
    IN  [arena |-> [list |-> Append(a.list, <<offset, length>>),
                    data |-> a.data \o value,
                    hash |-> (value :> index) @@ a.hash],
         index |-> index]

\* An intern that gives a value found at the start of an interned string the
\* handle of that string.
InternSharingPrefix(a, value) ==
    IF value \in DOMAIN a.hash
    THEN [arena |-> a, index |-> a.hash[value]]
    ELSE IF \E s \in DOMAIN a.hash : IsPrefix(value, s)
         THEN LET index == a.hash[CHOOSE s \in DOMAIN a.hash : IsPrefix(value, s)]
              IN  [arena |-> [a EXCEPT !.hash = a.hash @@ (value :> index)],
                   index |-> index]
         ELSE InternNoLookup(a, value)

\* Writer::intern on the arena a = [list, data, hash]: the arena after the
\* call and the returned index.
InternIn(a, value) ==
    IF value \in DOMAIN a.hash
    THEN [arena |-> a, index |-> a.hash[value]]
    ELSE LET offset == Len(a.data)
             length == Len(value)
             index == Len(a.list)
         IN  [arena |-> [list |-> Append(a.list, <<offset, length>>),
                         data |-> a.data \o value,
                         hash |-> a.hash @@ (value :> index)],
              index |-> index]

Arena == [list |-> string_list, data |-> string_data, hash |-> string_hash]

EmptyArena == [list |-> <<>>, data |-> <<>>, hash |-> <<>>]

\* The implementations of slice::binary_search_by a build may link: which
\* of several Equal rows is found depends on it.
BinarySearches == {"halving", "probing"}

NoCall == [op |-> "none", key |-> <<>>, outcome |-> "none", ret |-> 0]

NoDB ==
    [loaded |-> FALSE, tags |-> <<>>, terms |-> <<>>, kanji |-> <<>>,
     index_prefix_jp |-> <<>>, index_suffix_jp |-> <<>>, index_chars_jp |-> <<>>,
     vector_data |-> <<>>, string_list |-> <<>>, string_data |-> <<>>]

\* Writer::new: every collection empty, then intern(String::new()).
Init ==
    LET r == InternIn(EmptyArena, <<>>)
    IN  /\ terms = <<>>
        /\ kanji = <<>>
        /\ tags = <<>>
        /\ tag_index = <<>>
        /\ string_list = r.arena.list
        /\ string_data = r.arena.data
        /\ string_hash = r.arena.hash
        /\ phase = "Open"
        /\ write_result = "none"
        /\ blob = <<>>
        /\ db = NoDB
        /\ check_result = "none"
        /\ out = {}
        /\ last = NoCall
        /\ binary_search \in BinarySearches
        /\ overflow_checks \in BOOLEAN

Intern(value) ==
    /\ phase = "Open"
    /\ LET r == InternIn(Arena, value)
       IN  /\ string_list' = r.arena.list
           /\ string_data' = r.arena.data
           /\ string_hash' = r.arena.hash
    /\ UNCHANGED <<terms, kanji, tags, tag_index, phase, write_result, blob, db,
                   check_result, out, last,
                   binary_search, overflow_checks>>

(***************************************************************************)
(* Writer: tags, terms and kanji.  The records pushed carry handles that   *)
(* the caller obtained from intern and get_tag.                            *)
(***************************************************************************)
Interned(strs) == strs \subseteq DOMAIN string_hash

\* Writer::get_tag: the index operator of the HashMap panics on a missing key.
get_tag(name) == tag_index[name]

Registered(names) == names \subseteq DOMAIN tag_index

\* Writer::push_tag
push_tag(tag) ==
    LET name == string(tag.name)
    IN  /\ tag_index' = [n \in DOMAIN tag_index \cup {name} |->
                            IF n = name THEN Len(tags) ELSE tag_index[n]]
        /\ tags' = Append(tags, tag)

\* The tags the callers register, by name.
TagNames == {<<97>>}

Records == Len(terms) + Len(kanji) + Len(tags)

PushTag(name) ==
    /\ phase = "Open"
    /\ Records < MaxRecords
    /\ Interned({name})
    /\ push_tag([name |-> string_hash[name], category |-> 0, order |-> 1,
                 notes |-> 0])
    /\ UNCHANGED <<terms, kanji, string_list, string_data, string_hash, phase,
                   write_result, blob, db, check_result, out, last,
                   binary_search, overflow_checks>>

\* The terms the callers push: the strings of the keys and of the glossary,
\* the names of the term tags, and the numeric attributes.
TermInputs == {
    [expression |-> <<97, 98>>, reading |-> <<97, 98>>, search_key |-> <<>>,
     score |-> 0, sequence |-> 1, frequency |-> 0,
     glossary |-> <<>>, term_tags |-> <<>>],
    [expression |-> <<97>>, reading |-> <<>>, search_key |-> <<97, 98>>,
     score |-> 0, sequence |-> 2, frequency |-> 1,
     glossary |-> <<>>, term_tags |-> <<>>],
    [expression |-> <<98, 97, 204, 129>>, reading |-> <<97, 98>>,
     search_key |-> <<97>>,
     score |-> 1, sequence |-> 3, frequency |-> 0,
     glossary |-> <<>>, term_tags |-> <<>>],
    [expression |-> <<>>, reading |-> <<>>, search_key |-> <<>>,
     score |-> 0, sequence |-> 4, frequency |-> 0,
     glossary |-> <<>>, term_tags |-> <<>>],
    [expression |-> <<97>>, reading |-> <<98, 97, 204, 129>>,
     search_key |-> <<>>,
     score |-> -1, sequence |-> 5, frequency |-> 0,
     glossary |-> <<<<97, 98>>>>, term_tags |-> <<<<97>>>>]}

Handle(str) == string_hash[str]

HandlesOf(strs) == Tup([i \in 1..Len(strs) |-> Handle(strs[i])])

TagsOf(names) == Tup([i \in 1..Len(names) |-> get_tag(names[i])])

PushTerm(t) ==
    /\ phase = "Open"
    /\ Records < MaxRecords
    /\ Interned({t.expression, t.reading, t.search_key} \cup Range(t.glossary))
    /\ Registered(Range(t.term_tags))
    \* Writer::push_term
    /\ terms' = Append(terms,
            [expression |-> Handle(t.expression),
             reading |-> Handle(t.reading),
             search_key |-> Handle(t.search_key),
             score |-> t.score,
             sequence |-> t.sequence,
             frequency |-> t.frequency,
             glossary |-> HandlesOf(t.glossary),
             rules |-> <<>>,
             term_tags |-> TagsOf(t.term_tags),
             definition_tags |-> <<>>])
    /\ UNCHANGED <<kanji, tags, tag_index, string_list, string_data, string_hash,
                   phase, write_result, blob, db, check_result, out, last,
                   binary_search, overflow_checks>>

\* The kanji the callers push.
KanjiInputs == {
    [character |-> 97, frequency |-> 0, meanings |-> <<<<97, 98>>>>,
     tags |-> <<>>, stats |-> <<>>],
    [character |-> 98, frequency |-> 0, meanings |-> <<>>,
     tags |-> <<>>, stats |-> <<>>],
    [character |-> 98, frequency |-> 1, meanings |-> <<<<97>>>>,
     tags |-> <<<<97>>>>, stats |-> <<<<<<97>>, <<97, 98>>>>>>]}

PushKanji(k) ==
    /\ phase = "Open"
    /\ Records < MaxRecords
    /\ Interned(Range(k.meanings) \cup {k.stats[i][2] : i \in DOMAIN k.stats})
    /\ Registered(Range(k.tags) \cup {k.stats[i][1] : i \in DOMAIN k.stats})
    \* Writer::push_kanji
    /\ kanji' = Append(kanji,
            [character |-> k.character,
             frequency |-> k.frequency,
             meanings |-> HandlesOf(k.meanings),
             onyomi |-> <<>>,
             kunyomi |-> <<>>,
             tags |-> TagsOf(k.tags),
             stats |-> Tup([i \in 1..Len(k.stats) |->
                          <<get_tag(k.stats[i][1]), Handle(k.stats[i][2])>>])])
    /\ UNCHANGED <<terms, tags, tag_index, string_list, string_data, string_hash,
                   phase, write_result, blob, db, check_result, out, last,
                   binary_search, overflow_checks>>

(***************************************************************************)
(* Writer::get_tag and Writer::get_tags called by name.                    *)
(***************************************************************************)
\* The names the callers look up: "a", which they may have pushed, and "ab".
TagQueries == {<<97>>, <<97, 98>>}

\* A lookup that answers 0 for a name that is not in the map.
get_tag_or_default(name) ==
    IF name \in DOMAIN tag_index
    THEN [outcome |-> "returned", ret |-> get_tag(name)]
    ELSE [outcome |-> "returned", ret |-> 0]

\* How a call of get_tag ends: the index operator of the HashMap panics on a
\* name that is not a key.
get_tag_call(name) ==
    IF name \in DOMAIN tag_index
    THEN [outcome |-> "returned", ret |-> get_tag(name)]
    ELSE [outcome |-> "panic", ret |-> 0]

\* How a call of get_tags ends: the loop pushes get_tag(name) for every name
\* and unwinds at the first panic.
get_tags_call(names) ==
    LET calls == Tup([i \in 1..Len(names) |-> get_tag_call(names[i])])
    IN  IF \E i \in 1..Len(names) : calls[i].outcome = "panic"
        THEN [outcome |-> "panic", ret |-> <<>>]
        ELSE [outcome |-> "returned",
              ret |-> Tup([i \in 1..Len(names) |-> calls[i].ret])]

\* A call on the open builder; a panic ends the program.
TagCall(op, key, call) ==
    /\ phase = "Open"
    /\ last' = [op |-> op, key |-> key, outcome |-> call.outcome,
                ret |-> call.ret]
    /\ phase' = IF call.outcome = "panic" THEN "Panicked" ELSE phase
    /\ UNCHANGED <<writer_vars, write_result, blob, db, check_result, out,
                   binary_search, overflow_checks>>

GetTag(name) == TagCall("get_tag", name, get_tag_call(name))

GetTags(names) == TagCall("get_tags", names, get_tags_call(names))

(***************************************************************************)
(* Writer::write, first half: relevance sort and index construction.       *)
(***************************************************************************)
\* A comparator that orders by frequency alone.
TermLessByFrequency(a, b) == b.frequency < a.frequency

\* The comparator of self.terms.sort_by returns Less for (a, b).
TermLess(a, b) ==
    IF a.frequency # b.frequency
    THEN b.frequency < a.frequency
    ELSE b.score < a.score

\* The comparator of self.kanji.sort_by returns Less for (a, b).
KanjiLess(a, b) == b.frequency < a.frequency

\* The outcomes of the comparators over all the pairs of a sequence.
TermOrder(ts) ==
    Tup([i \in 1..Len(ts) |-> Tup([j \in 1..Len(ts) |-> TermLess(ts[i], ts[j])])])

KanjiOrder(ks) ==
    Tup([i \in 1..Len(ks) |-> Tup([j \in 1..Len(ks) |-> KanjiLess(ks[i], ks[j])])])

\* The terms as sort_unstable_by may leave them: equal elements reversed.
SortTermsUnstable(ts) == SortByReversingTies(ts, TermOrder(ts))

\* self.terms.sort_by(..)
SortTerms(ts) == SortBy(ts, TermOrder(ts))

\* self.kanji.sort_by(..)
SortKanji(ks) == SortBy(ks, KanjiOrder(ks))

\* The rows pushed for the term at 0-based position index.
TermRows(it, index) ==
    <<[key |-> it.expression, term |-> index]>>
    \o (IF it.reading > 0 THEN <<[key |-> it.reading, term |-> index]>> ELSE <<>>)
    \o (IF it.search_key > 0 THEN <<[key |-> it.search_key, term |-> index]>>
        ELSE <<>>)

\* The closure rev of write: the grapheme reversal of an interned string.
rev(index) == RevGraphemes(string(index))

\* The rows with the string each comparator looks at: string(key) for the
\* prefix index, the memoized rev(key) for the suffix index.
WithString(rows) ==
    Tup([i \in 1..Len(rows) |-> [row |-> rows[i], str |-> string(rows[i].key)]])

WithRev(rows) ==
    Tup([i \in 1..Len(rows) |-> [row |-> rows[i], str |-> rev(rows[i].key)]])

Rows(keyed) == Tup([i \in 1..Len(keyed) |-> keyed[i].row])

\* A comparator that orders the rows by the key handles, not by the strings.
PrefixLessByHandle(a, b) == a.row.key < b.row.key

\* The comparator of index_prefix_jp.sort_by returns Less for (a, b).
PrefixLess(a, b) == StrLess(a.str, b.str)

\* A comparator that orders the rows by the strings of the keys as they are.
SuffixLessUnreversed(a, b) == StrLess(string(a.row.key), string(b.row.key))

\* The comparator of index_suffix_jp.sort_by returns Less for (a, b).
SuffixLess(a, b) == StrLess(a.str, b.str)

PrefixOrder(keyed) ==
    Tup([i \in 1..Len(keyed) |->
        Tup([j \in 1..Len(keyed) |-> PrefixLess(keyed[i], keyed[j])])])

SuffixOrder(keyed) ==
    Tup([i \in 1..Len(keyed) |->
        Tup([j \in 1..Len(keyed) |-> SuffixLess(keyed[i], keyed[j])])])

\* The prefix index made from the terms in the order they were pushed.
BuildPrefixIndexBeforeSort(ts) ==
    LET rows == Concat([i \in 1..Len(terms) |-> TermRows(terms[i], i - 1)])
        keyed == WithString(rows)
    IN  Rows(SortBy(keyed, PrefixOrder(keyed)))

BuildPrefixIndex(ts) ==
    LET rows == Concat([i \in 1..Len(ts) |-> TermRows(ts[i], i - 1)])
        keyed == WithString(rows)
    IN  Rows(SortBy(keyed, PrefixOrder(keyed)))

\* The clone of the prefix index left in the order of the prefix index.
BuildSuffixIndexUnsorted(index_prefix_jp) == index_prefix_jp

\* index_prefix_jp.clone() sorted by the reversed key.
BuildSuffixIndex(index_prefix_jp) ==
    LET keyed == WithRev(index_prefix_jp)
    IN  Rows(SortBy(keyed, SuffixOrder(keyed)))

\* The characters of all three keys of a term.
TermCharsWithSearchKey(it) ==
    CharSet(string(it.expression) \o string(it.reading) \o string(it.search_key))

\* The characters of the key of the per-character index for one term.
TermChars(it) == CharSet(string(it.expression) \o string(it.reading))

\* index_chars_jp: HashMap<char, HashSet<u32>>.
BuildCharsIndex(ts) ==
    LET keys == UNION {TermChars(ts[i]) : i \in 1..Len(ts)}
    IN  [chr \in keys |-> {i - 1 : i \in {j \in 1..Len(ts) : chr \in TermChars(ts[j])}}]

\* The orders in which a HashMap may iterate over its keys.
IterationOrders(keys) ==
    {o \in [1..Cardinality(keys) -> keys] :
        \A i, j \in 1..Cardinality(keys) : i # j => o[i] # o[j]}

(***************************************************************************)
(* Writer::write, second half: packing of the lists into vector_data and   *)
(* the Raw structure.                                                      *)
(***************************************************************************)
\* A push_vec that reuses the start of vector_data for a list found there.
push_vec_shared(vector_data, vec) ==
    IF Len(vec) = 0
    THEN [handle |-> [offset |-> 0, length |-> 0], data |-> vector_data]
    ELSE IF IsPrefix(vec, vector_data)
         THEN [handle |-> [offset |-> 0, length |-> Len(vec)], data |-> vector_data]
         ELSE [handle |-> [offset |-> Len(vector_data), length |-> Len(vec)],
               data |-> vector_data \o vec]

\* A push_vec that gives the empty list the offset of the end of the data.
push_vec_at_end(vector_data, vec) ==
    [handle |-> [offset |-> Len(vector_data), length |-> Len(vec)],
     data |-> vector_data \o vec]

\* The closure push_vec: the handle returned and vector_data afterwards.
push_vec(vector_data, vec) ==
    IF Len(vec) = 0
    THEN [handle |-> [offset |-> 0, length |-> 0], data |-> vector_data]
    ELSE [handle |-> [offset |-> Len(vector_data), length |-> Len(vec)],
          data |-> vector_data \o vec]

\* push_vec applied to the lists in order.
RECURSIVE PushAll(_, _)
PushAll(vector_data, lists) ==
    IF lists = <<>>
    THEN [handles |-> <<>>, data |-> vector_data]
    ELSE LET r == push_vec(vector_data, Head(lists))
             rest == PushAll(r.data, Tail(lists))
         IN  [handles |-> <<r.handle>> \o rest.handles, data |-> rest.data]

\* kanji.stats.into_iter().flat_map(|x| vec![x.0, x.1]).collect()
FlatStats(stats) == Concat([i \in 1..Len(stats) |-> <<stats[i][1], stats[i][2]>>])

KanjiLists(k) == <<k.meanings, k.onyomi, k.kunyomi, k.tags, FlatStats(k.stats)>>

TermLists(t) == <<t.glossary, t.rules, t.term_tags, t.definition_tags>>

\* The Raw structure built by write from the sorted records, the indexes and
\* the iteration order of the per-character HashMap.
BuildRaw(ts, ks, index_prefix_jp, index_suffix_jp, index_chars_jp, order) ==
    LET kl == Concat([i \in 1..Len(ks) |-> KanjiLists(ks[i])])
        tl == Concat([i \in 1..Len(ts) |-> TermLists(ts[i])])
        cl == Tup([i \in 1..Len(order) |-> SetToSortedSeq(index_chars_jp[order[i]])])
        pk == PushAll(<<>>, kl)
        pt == PushAll(pk.data, tl)
        pc == PushAll(pt.data, cl)
    IN  [tags |-> tags,
         kanji |-> Tup([i \in 1..Len(ks) |->
            [character |-> ks[i].character,
             frequency |-> ks[i].frequency,
             meanings |-> pk.handles[5 * (i - 1) + 1],
             onyomi |-> pk.handles[5 * (i - 1) + 2],
             kunyomi |-> pk.handles[5 * (i - 1) + 3],
             tags |-> pk.handles[5 * (i - 1) + 4],
             stats |-> pk.handles[5 * (i - 1) + 5]]]),
         terms |-> Tup([i \in 1..Len(ts) |->
            [expression |-> ts[i].expression,
             reading |-> ts[i].reading,
             search_key |-> ts[i].search_key,
             score |-> ts[i].score,
             sequence |-> ts[i].sequence,
             frequency |-> ts[i].frequency,
             glossary |-> pt.handles[4 * (i - 1) + 1],
             rules |-> pt.handles[4 * (i - 1) + 2],
             term_tags |-> pt.handles[4 * (i - 1) + 3],
             definition_tags |-> pt.handles[4 * (i - 1) + 4]]]),
         index_prefix_jp |-> index_prefix_jp,
         index_suffix_jp |-> index_suffix_jp,
         index_chars_jp |-> Tup([i \in 1..Len(order) |->
            [character |-> order[i], indexes |-> pc.handles[i]]]),
         vector_data |-> pc.data,
         string_list |-> Tup([i \in 1..Len(string_list) |->
            [offset |-> string_list[i][1], length |-> string_list[i][2]]]),
         string_data |-> string_data]

(***************************************************************************)
(* Raw::write: the byte stream.  Every u32 and i32 is written as four      *)
(* little-endian bytes, every section as its count followed by its items.  *)
(***************************************************************************)
\* u32::to_le_bytes and i32::to_le_bytes (two's complement: \div rounds down
\* and % is never negative).
to_le_bytes(value) ==
    <<value % 256, (value \div 256) % 256, (value \div 65536) % 256,
      (value \div 16777216) % 256>>

HandleWords(h) == <<h.offset, h.length>>

TagRawWords(t) == <<t.name, t.category, t.order, t.notes>>

TermRawWords(t) ==
    <<t.expression, t.reading, t.search_key, t.score, t.sequence,
      t.frequency>>
    \o HandleWords(t.glossary) \o HandleWords(t.rules)
    \o HandleWords(t.term_tags) \o HandleWords(t.definition_tags)

KanjiRawWords(k) ==
    <<k.character, k.frequency>>
    \o HandleWords(k.meanings) \o HandleWords(k.onyomi) \o HandleWords(k.kunyomi)
    \o HandleWords(k.tags) \o HandleWords(k.stats)

TermIndexWords(r) == <<r.key, r.term>>

CharIndexWords(r) == <<r.character>> \o HandleWords(r.indexes)

\* write_raw / to_bytes of a packed record given by its 32-bit fields.
to_bytes(words) == Concat([i \in 1..Len(words) |-> to_le_bytes(words[i])])

\* write_len
write_len(value) == to_le_bytes(value)

\* write_all: the count, then each item.
write_all(items) ==
    write_len(Len(items)) \o Concat([i \in 1..Len(items) |-> to_bytes(items[i])])

\* write_vec
write_vec(vec) ==
    write_len(Len(vec)) \o Concat([i \in 1..Len(vec) |-> to_le_bytes(vec[i])])

\* Raw::write into a sink that takes every byte it is offered.
RawWrite(raw) ==
    write_all(Tup([i \in 1..Len(raw.tags) |-> TagRawWords(raw.tags[i])]))
    \o write_all(Tup([i \in 1..Len(raw.terms) |-> TermRawWords(raw.terms[i])]))
    \o write_all(Tup([i \in 1..Len(raw.kanji) |-> KanjiRawWords(raw.kanji[i])]))
    \o write_all(Tup([i \in 1..Len(raw.index_prefix_jp) |-> TermIndexWords(raw.index_prefix_jp[i])]))
    \o write_all(Tup([i \in 1..Len(raw.index_suffix_jp) |-> TermIndexWords(raw.index_suffix_jp[i])]))
    \o write_all(Tup([i \in 1..Len(raw.index_chars_jp) |-> CharIndexWords(raw.index_chars_jp[i])]))
    \o write_vec(raw.vector_data)
    \o write_all(Tup([i \in 1..Len(raw.string_list) |-> HandleWords(raw.string_list[i])]))
    \o write_len(Len(raw.string_data))
    \o raw.string_data

\* The buffers Raw::write hands to writer.write, one per call: write_u32 for
\* every count and every element of vector_data, write_raw for every record,
\* and the call with the bytes of string_data.
write_all_calls(items) ==
    <<write_len(Len(items))>> \o Tup([i \in 1..Len(items) |-> to_bytes(items[i])])

write_vec_calls(vec) ==
    <<write_len(Len(vec))>> \o Tup([i \in 1..Len(vec) |-> to_le_bytes(vec[i])])

RawWriteCalls(raw) ==
    write_all_calls(Tup([i \in 1..Len(raw.tags) |-> TagRawWords(raw.tags[i])]))
    \o write_all_calls(Tup([i \in 1..Len(raw.terms) |-> TermRawWords(raw.terms[i])]))
    \o write_all_calls(Tup([i \in 1..Len(raw.kanji) |-> KanjiRawWords(raw.kanji[i])]))
    \o write_all_calls(Tup([i \in 1..Len(raw.index_prefix_jp) |-> TermIndexWords(raw.index_prefix_jp[i])]))
    \o write_all_calls(Tup([i \in 1..Len(raw.index_suffix_jp) |-> TermIndexWords(raw.index_suffix_jp[i])]))
    \o write_all_calls(Tup([i \in 1..Len(raw.index_chars_jp) |-> CharIndexWords(raw.index_chars_jp[i])]))
    \o write_vec_calls(raw.vector_data)
    \o write_all_calls(Tup([i \in 1..Len(raw.string_list) |-> HandleWords(raw.string_list[i])]))
    \o <<write_len(Len(raw.string_data)), raw.string_data>>

\* The sinks (implementations of std::io::Write) the callers write to: one that
\* takes every byte, one whose write accepts at most ShortWrite bytes of the
\* buffer and returns Ok(n), and one whose write returns Err at its call
\* number FailingCall.
Sinks == {"complete", "short", "failing"}

ShortWrite == 4

FailingCall == 2

\* The bytes the n-th call of writer.write(buf) accepts.
Accepted(sink, buf) ==
    IF sink = "short" THEN SubSeq(buf, 1, Min(Len(buf), ShortWrite)) ELSE buf

\* Raw::write into the sink: the Result it returns and the bytes the sink has
\* accepted.  The number of bytes returned by writer.write is dropped by `?`;
\* an Err is returned at once.
RECURSIVE RawWriteTo(_, _, _, _)
RawWriteTo(sink, calls, n, received) ==
    IF calls = <<>>
    THEN [result |-> "ok", bytes |-> received]
    ELSE IF sink = "failing" /\ n = FailingCall
         THEN [result |-> "err", bytes |-> received]
         ELSE RawWriteTo(sink, Tail(calls), n + 1,
                         received \o Accepted(sink, Head(calls)))

(***************************************************************************)
(* DB::load: the sections read back from the bytes.                        *)
(***************************************************************************)
\* u32::from_le of the four bytes at offset pos (0-based).
from_le(src, pos) ==
    src[pos + 1] + 256 * src[pos + 2] + 65536 * src[pos + 3]
    + 16777216 * (IF src[pos + 4] >= 128 THEN src[pos + 4] - 256 ELSE src[pos + 4])

\* i32::from_le of the four bytes at offset pos: the top byte carries the sign.
from_le_i32(src, pos) ==
    src[pos + 1] + 256 * src[pos + 2] + 65536 * src[pos + 3]
    + 16777216 * (IF src[pos + 4] >= 128 THEN src[pos + 4] - 256 ELSE src[pos + 4])

\* A read_slice that takes the items that fit instead of slicing past the end.
read_slice_clamped(src, item_size) ==
    IF Len(src) < 4
    THEN [ok |-> TRUE, items |-> <<>>, next |-> <<>>]
    ELSE LET count == Min(from_le(src, 0), (Len(src) - 4) \div item_size)
             data_size == item_size * count
         IN  [ok |-> TRUE,
              items |-> Tup([i \in 1..count |->
                   Slice(src, 4 + item_size * (i - 1), 4 + item_size * i)]),
              next |-> Slice(src, 4 + data_size, Len(src))]

\* read_slice::<U> for an item of item_size bytes: whether the assertion and
\* the slicing succeed, the items (each as its bytes) and the rest.
read_slice(src, item_size) ==
    IF Len(src) < 4
    THEN [ok |-> FALSE, items |-> <<>>, next |-> <<>>]
    ELSE LET count == from_le(src, 0)
             data_size == item_size * count
         IN  IF data_size > Len(src) - 4
             THEN [ok |-> FALSE, items |-> <<>>, next |-> <<>>]
             ELSE [ok |-> TRUE,
                   items |-> Tup([i \in 1..count |->
                        Slice(src, 4 + item_size * (i - 1), 4 + item_size * i)]),
                   next |-> Slice(src, 4 + data_size, Len(src))]

HandleAt(b, pos) == [offset |-> from_le(b, pos), length |-> from_le(b, pos + 4)]

\* The packed records, field by field at their byte offsets.
TagRawOf(b) ==
    [name |-> from_le(b, 0), category |-> from_le(b, 4),
     order |-> from_le_i32(b, 8), notes |-> from_le(b, 12)]

TermRawOf(b) ==
    [expression |-> from_le(b, 0), reading |-> from_le(b, 4),
     search_key |-> from_le(b, 8), score |-> from_le_i32(b, 12),
     sequence |-> from_le(b, 16), frequency |-> from_le(b, 20),
     glossary |-> HandleAt(b, 24), rules |-> HandleAt(b, 32),
     term_tags |-> HandleAt(b, 40), definition_tags |-> HandleAt(b, 48)]

KanjiRawOf(b) ==
    [character |-> from_le(b, 0), frequency |-> from_le(b, 4),
     meanings |-> HandleAt(b, 8), onyomi |-> HandleAt(b, 16),
     kunyomi |-> HandleAt(b, 24), tags |-> HandleAt(b, 32),
     stats |-> HandleAt(b, 40)]

TermIndexOf(b) == [key |-> from_le(b, 0), term |-> from_le(b, 4)]

CharIndexOf(b) == [character |-> from_le(b, 0), indexes |-> HandleAt(b, 4)]

StrHandleOf(b) == HandleAt(b, 0)

RawUint32Of(b) == from_le(b, 0)

\* DB::load: the DB over the bytes, or loaded = FALSE when read_slice panics.
load(data) ==
    LET s1 == read_slice(data, 16)
        s2 == read_slice(s1.next, 56)
        s3 == read_slice(s2.next, 48)
        s4 == read_slice(s3.next, 8)
        s5 == read_slice(s4.next, 8)
        s6 == read_slice(s5.next, 12)
        s7 == read_slice(s6.next, 4)
        s8 == read_slice(s7.next, 8)
        s9 == read_slice(s8.next, 1)
    IN  IF s1.ok /\ s2.ok /\ s3.ok /\ s4.ok /\ s5.ok /\ s6.ok /\ s7.ok /\ s8.ok
           /\ s9.ok
        THEN [loaded |-> TRUE,
              tags |-> Tup([i \in 1..Len(s1.items) |-> TagRawOf(s1.items[i])]),
              terms |-> Tup([i \in 1..Len(s2.items) |-> TermRawOf(s2.items[i])]),
              kanji |-> Tup([i \in 1..Len(s3.items) |-> KanjiRawOf(s3.items[i])]),
              index_prefix_jp |-> Tup([i \in 1..Len(s4.items) |-> TermIndexOf(s4.items[i])]),
              index_suffix_jp |-> Tup([i \in 1..Len(s5.items) |-> TermIndexOf(s5.items[i])]),
              index_chars_jp |-> Tup([i \in 1..Len(s6.items) |-> CharIndexOf(s6.items[i])]),
              vector_data |-> Tup([i \in 1..Len(s7.items) |-> RawUint32Of(s7.items[i])]),
              string_list |-> Tup([i \in 1..Len(s8.items) |-> StrHandleOf(s8.items[i])]),
              string_data |-> Concat(s9.items)]
        ELSE NoDB

(***************************************************************************)
(* The actions Write and Load.                                             *)
(***************************************************************************)
\* Writer::write.  The statistics printed after the indexes are built divide
\* by the number of keys of the per-character index.
Write ==
    /\ phase = "Open"
    /\ LET ts == SortTerms(terms)
           ks == SortKanji(kanji)
       IN  /\ terms' = ts
           /\ kanji' = ks
           /\ phase' = "Sealed"
           /\ LET index_prefix_jp == BuildPrefixIndex(ts)
                  index_suffix_jp == BuildSuffixIndex(index_prefix_jp)
                  index_chars_jp == BuildCharsIndex(ts)
                  num_char_keys == Cardinality(DOMAIN index_chars_jp)
              IN  IF num_char_keys = 0
                  THEN /\ write_result' = "panic"
                       /\ blob' = <<>>
                  ELSE \E order \in IterationOrders(DOMAIN index_chars_jp) :
                       /\ write_result' = "ok"
                       /\ blob' = RawWrite(BuildRaw(ts, ks, index_prefix_jp,
                                    index_suffix_jp, index_chars_jp, order))
    /\ UNCHANGED <<tags, tag_index, string_list, string_data, string_hash, db,
                   check_result, out, last,
                   binary_search, overflow_checks>>

\* Writer::write into one of the sinks; blob is what the sink has accepted.
WriteTo(sink) ==
    /\ phase = "Open"
    /\ LET ts == SortTerms(terms)
           ks == SortKanji(kanji)
       IN  /\ terms' = ts
           /\ kanji' = ks
           /\ phase' = "Sealed"
           /\ LET index_prefix_jp == BuildPrefixIndex(ts)
                  index_suffix_jp == BuildSuffixIndex(index_prefix_jp)
                  index_chars_jp == BuildCharsIndex(ts)
                  num_char_keys == Cardinality(DOMAIN index_chars_jp)
              IN  IF num_char_keys = 0
                  THEN /\ write_result' = "panic"
                       /\ blob' = <<>>
                       /\ last' = [op |-> "write: " \o sink, key |-> <<>>,
                                   outcome |-> "panic", ret |-> 0]
                  ELSE \E order \in IterationOrders(DOMAIN index_chars_jp) :
                       LET raw == BuildRaw(ts, ks, index_prefix_jp,
                                           index_suffix_jp, index_chars_jp, order)
                           r == RawWriteTo(sink, RawWriteCalls(raw), 1, <<>>)
                       IN  /\ write_result' = r.result
                           /\ blob' = r.bytes
                           /\ last' = [op |-> "write: " \o sink, key |-> <<>>,
                                       outcome |-> "returned", ret |-> 0]
    /\ UNCHANGED <<tags, tag_index, string_list, string_data, string_hash, db,
                   check_result, out, binary_search, overflow_checks>>

\* DB::load on the written bytes.
Load ==
    /\ write_result = "ok"
    /\ ~db.loaded
    /\ db' = load(blob)
    /\ UNCHANGED <<writer_vars, phase, write_result, blob, check_result, out, last,
                   binary_search, overflow_checks>>

(***************************************************************************)
(* DB::check.  Every helper yields the messages of the assertions that     *)
(* fail, in program order; the first one is the panic the caller sees.     *)
(***************************************************************************)
Assert_(cond, msg) == IF cond THEN <<>> ELSE <<msg>>

\* u32 + u32 in a build without overflow checks: the sum modulo 2^32.
wrapping_add(a, b) ==
    IF a >= 0 /\ b >= 0
    THEN IF a <= MaxI32 - b THEN a + b
         ELSE ((a - MaxI32) - 1) + ((b - MaxI32) - 1)
    ELSE IF a < 0 /\ b < 0
         THEN IF a >= (-MaxI32 - 1) - b THEN a + b
              ELSE ((a + MaxI32) + 1) + ((b + MaxI32) + 1)
         ELSE a + b

\* u32 + u32 exceeds u32::MAX: "attempt to add with overflow" in a build with
\* overflow checks.
overflows(a, b) ==
    \/ a < 0 /\ b < 0
    \/ a < 0 /\ b >= 0 /\ a + b >= 0
    \/ a >= 0 /\ b < 0 /\ a + b >= 0

\* (x as usize) <= len and (x as usize) < len for a u32 x and the length of
\* a slice.
AtMost(x, len) == x >= 0 /\ x <= len

\* StrHandle::range and VecHandle::range: (offset, offset + length), the sum
\* taken in u32.
range(h) == <<h.offset, wrapping_add(h.offset, h.length)>>

\* The addition in range panics.
range_panics(h) == overflow_checks /\ overflows(h.offset, h.length)

check_string(d, index, name) ==
    Assert_(index < Len(d.string_list), name \o ": string index out of bounds")

check_vector(d, vec, name) ==
    LET sta == range(vec)[1]
        end == range(vec)[2]
    IN  IF range_panics(vec)
        THEN <<"attempt to add with overflow">>
        ELSE IF ~AtMost(sta, Len(d.vector_data))
        THEN <<name \o ": vector start out of bounds">>
        ELSE Assert_(AtMost(end, Len(d.vector_data)),
                     name \o ": vector end out of bounds")

\* check_vector followed by the slicing self.vector_data[sta..end], which
\* panics when sta > end.
check_slice(d, vec, name) ==
    LET c == check_vector(d, vec, name)
    IN  IF c # <<>> THEN c
        ELSE Assert_(range(vec)[1] <= range(vec)[2],
                     "slice index starts after its end")

\* self.vector_data[sta..end] of a handle that passed check_vector.
VecItems(d, vec) == Slice(d.vector_data, range(vec)[1], range(vec)[2])

First(msgs) == IF msgs = <<>> THEN <<>> ELSE <<Head(msgs)>>

check_vector_strings(d, vec, name) ==
    LET c == check_slice(d, vec, name)
    IN  IF c # <<>> THEN c
        ELSE First(Concat([i \in 1..Len(VecItems(d, vec)) |->
                check_string(d, VecItems(d, vec)[i], name \o " string index:")]))

\* A check of tag lists that lets the handle len(tags) through.
check_vector_tags_inclusive(d, vec, name) ==
    LET c == check_slice(d, vec, name)
    IN  IF c # <<>> THEN c
        ELSE First(Concat([i \in 1..Len(VecItems(d, vec)) |->
                Assert_(VecItems(d, vec)[i] <= Len(d.tags),
                        name \o ": tag index out of bounds")]))

check_vector_tags(d, vec, name) ==
    LET c == check_slice(d, vec, name)
    IN  IF c # <<>> THEN c
        ELSE First(Concat([i \in 1..Len(VecItems(d, vec)) |->
                Assert_(VecItems(d, vec)[i] < Len(d.tags),
                        name \o ": tag index out of bounds")]))

check_vector_terms(d, vec, name) ==
    LET c == check_slice(d, vec, name)
    IN  IF c # <<>> THEN c
        ELSE First(Concat([i \in 1..Len(VecItems(d, vec)) |->
                Assert_(VecItems(d, vec)[i] < Len(d.terms),
                        name \o ": term index out of bounds")]))

check_term_index(d, row, name) ==
    First(check_string(d, row.key, name)
          \o Assert_(row.term <= Len(d.terms), name \o ": term out of bounds"))

\* The loop over the (tag, value) pairs of the stats of a kanji.
check_stats(d, vec) ==
    LET c == check_slice(d, vec, "kanji stats")
        items == VecItems(d, vec)
    IN  IF c # <<>> THEN c
        ELSE First(Concat([i \in 1..((Len(items) + 1) \div 2) |->
                IF 2 * i > Len(items)
                THEN <<"kanji stat tag missing value">>
                ELSE First(Assert_(items[2 * i - 1] <= Len(d.tags),
                                   "kanji stat tag out of bounds")
                           \o check_string(d, items[2 * i], "kanji stat value"))]))

check_tag(d, tag) ==
    First(check_string(d, tag.name, "tag name")
          \o check_string(d, tag.category, "tag category")
          \o check_string(d, tag.notes, "tag notes"))

check_term(d, term) ==
    First(check_string(d, term.expression, "term expression")
          \o check_string(d, term.reading, "term reading")
          \o check_string(d, term.search_key, "term search key")
          \o check_vector_strings(d, term.glossary, "term glossary")
          \o check_vector_tags(d, term.rules, "term rules")
          \o check_vector_tags(d, term.term_tags, "term tags")
          \o check_vector_tags(d, term.definition_tags, "term definition tags"))

check_kanji(d, k) ==
    First(check_vector_strings(d, k.meanings, "kanji meanings")
          \o check_vector_strings(d, k.onyomi, "kanji onyomi")
          \o check_vector_strings(d, k.kunyomi, "kanji kunyomi")
          \o check_vector_tags(d, k.tags, "kanji tags")
          \o check_stats(d, k.stats))

check_strings(d) ==
    First(Concat([i \in 1..Len(d.string_list) |->
        LET sta == range(d.string_list[i])[1]
            end == range(d.string_list[i])[2]
        IN  IF range_panics(d.string_list[i])
            THEN <<"attempt to add with overflow">>
            ELSE First(Assert_(AtMost(sta, Len(d.string_data)),
                               "string start out of bounds")
                       \o Assert_(AtMost(end, Len(d.string_data)),
                                  "string end out of bounds"))]))

\* DB::check: "ok", or the message of the panic.  The average printed at the
\* end divides by the number of rows of the per-character index.
check(d) ==
    LET msgs ==
            Concat([i \in 1..Len(d.tags) |-> check_tag(d, d.tags[i])])
            \o Concat([i \in 1..Len(d.terms) |-> check_term(d, d.terms[i])])
            \o Concat([i \in 1..Len(d.kanji) |-> check_kanji(d, d.kanji[i])])
            \o Concat([i \in 1..Len(d.index_prefix_jp) |->
                    check_term_index(d, d.index_prefix_jp[i], "prefix index")])
            \o Concat([i \in 1..Len(d.index_suffix_jp) |->
                    check_term_index(d, d.index_suffix_jp[i], "suffix index")])
            \o Concat([i \in 1..Len(d.index_chars_jp) |->
                    check_vector_terms(d, d.index_chars_jp[i].indexes,
                                       "index chars row")])
            \o Assert_(Len(d.index_chars_jp) # 0, "attempt to divide by zero")
            \o check_strings(d)
    IN  IF msgs = <<>> THEN "ok" ELSE Head(msgs)

Check ==
    /\ db.loaded
    /\ check_result = "none"
    /\ check_result' = check(db)
    /\ UNCHANGED <<writer_vars, phase, write_result, blob, db, out, last,
                   binary_search, overflow_checks>>

(***************************************************************************)
(* Blobs that are not the bytes write produced: a written blob cut short,  *)
(* and blobs serialized from the written records with something changed.   *)
(***************************************************************************)
Edits == {"truncated", "terms reversed", "prefix index reversed",
          "suffix index reversed", "bucket reversed",
          "row term = len(terms)", "stat tag = len(tags)",
          "term tag = len(tags)", "string length = u32::MAX",
          "list length = u32::MAX"}

\* v with its len entries from the 0-based offset off in reverse order.
ReverseRange(v, off, len) ==
    Tup([i \in 1..Len(v) |->
        IF i > off /\ i <= off + len THEN v[2 * off + len + 1 - i] ELSE v[i]])

\* The rows of the per-character index whose bucket has several terms.
WideBuckets(d) ==
    {i \in DOMAIN d.index_chars_jp : d.index_chars_jp[i].indexes.length > 1}

NoVec == [offset |-> 0, length |-> 0]

\* The records of d with the change the edit names.
Edited(d, edit) ==
    CASE edit = "terms reversed" -> [d EXCEPT !.terms = Reverse(@)]
      [] edit = "prefix index reversed" ->
            [d EXCEPT !.index_prefix_jp = Reverse(@)]
      [] edit = "suffix index reversed" ->
            [d EXCEPT !.index_suffix_jp = Reverse(@)]
      [] edit = "bucket reversed" ->
            IF WideBuckets(d) = {} THEN d
            ELSE LET row == CHOOSE i \in WideBuckets(d) : TRUE
                     h == d.index_chars_jp[row].indexes
                 IN  [d EXCEPT !.vector_data = ReverseRange(@, h.offset, h.length)]
      [] edit = "row term = len(terms)" ->
            [d EXCEPT !.index_prefix_jp[1].term = Len(d.terms)]
      [] edit = "stat tag = len(tags)" ->
            [d EXCEPT !.kanji = Append(@,
                        [character |-> 97, frequency |-> 0, meanings |-> NoVec,
                         onyomi |-> NoVec, kunyomi |-> NoVec, tags |-> NoVec,
                         stats |-> [offset |-> Len(d.vector_data), length |-> 2]]),
                      !.vector_data = @ \o <<Len(d.tags), 0>>]
      [] edit = "term tag = len(tags)" ->
            [d EXCEPT !.terms[1].term_tags =
                        [offset |-> Len(d.vector_data), length |-> 1],
                      !.vector_data = @ \o <<Len(d.tags)>>]
      [] edit = "string length = u32::MAX" ->
            [d EXCEPT !.string_list[2] = [offset |-> 1, length |-> MaxU32]]
      [] edit = "list length = u32::MAX" ->
            [d EXCEPT !.terms[1].glossary = [offset |-> 1, length |-> MaxU32]]
      [] OTHER -> d

EditedBlob(data, edit) ==
    IF edit = "truncated"
    THEN SubSeq(data, 1, Len(data) - 1)
    ELSE RawWrite(Edited(load(data), edit))

\* DB::load on an edited copy of the written bytes.  The slicing of
\* read_slice panics when a section does not fit in the bytes that are left.
LoadEdited(edit) ==
    /\ write_result = "ok"
    /\ ~db.loaded
    /\ last = NoCall
    /\ LET data == EditedBlob(blob, edit)
           d == load(data)
       IN  /\ data # blob
           /\ blob' = data
           /\ db' = d
           /\ last' = [op |-> "load: " \o edit, key |-> <<>>,
                       outcome |-> IF d.loaded THEN "returned" ELSE "panic",
                       ret |-> 0]
    /\ UNCHANGED <<writer_vars, phase, write_result, check_result, out,
                   binary_search, overflow_checks>>

(***************************************************************************)
(* Search over the loaded DB.                                              *)
(***************************************************************************)
\* DB::get_str: the pair of string_list at the handle, sliced from string_data.
get_str(d, index) ==
    Slice(d.string_data, range(d.string_list[index + 1])[1],
          range(d.string_list[index + 1])[2])

\* str::starts_with
starts_with(other, keyword) == IsPrefix(keyword, other)

\* A comparator that ignores the mode and always compares whole strings.
RowCmpWhole(d, it, keyword, full_match) ==
    StrCmp(get_str(d, it.key), keyword)

\* The comparator cmp of do_search_index_range applied to a row.
RowCmp(d, it, keyword, full_match) ==
    LET other == get_str(d, it.key)
    IN  IF full_match
        THEN StrCmp(other, keyword)
        ELSE IF starts_with(other, keyword) THEN "Equal"
             ELSE StrCmp(other, keyword)

\* slice::binary_search_by as the standard library implements it: the loop
\* that halves size and compares once more at the end (0-based base) ...
RECURSIVE BinarySearchHalving(_, _, _)
BinarySearchHalving(c, base, size) ==
    IF size > 1
    THEN LET half == size \div 2
             mid == base + half
         IN  BinarySearchHalving(c, IF c[mid + 1] = "Greater" THEN base ELSE mid,
                                 size - half)
    ELSE IF c[base + 1] = "Equal" THEN base ELSE -1

\* ... and the loop that returns at the first Equal probe.
RECURSIVE BinarySearchProbing(_, _, _)
BinarySearchProbing(c, left, right) ==
    IF left < right
    THEN LET mid == left + (right - left) \div 2
         IN  IF c[mid + 1] = "Less" THEN BinarySearchProbing(c, mid + 1, right)
             ELSE IF c[mid + 1] = "Greater" THEN BinarySearchProbing(c, left, mid)
             ELSE mid
    ELSE -1

\* The positions binary_search_by may return as Ok(pos) for the comparator
\* outcomes c of the rows; the empty set stands for Err.
binary_search_by(c) ==
    IF Len(c) = 0 THEN {}
    ELSE {IF binary_search = "halving"
          THEN BinarySearchHalving(c, 0, Len(c))
          ELSE BinarySearchProbing(c, 0, Len(c))} \ {-1}

\* The loops that expand the range in prefix mode.
RECURSIVE ExpandDown(_, _, _, _)
ExpandDown(d, index, keyword, sta) ==
    IF sta > 0 /\ starts_with(get_str(d, index[sta].key), keyword)
    THEN ExpandDown(d, index, keyword, sta - 1)
    ELSE sta

RECURSIVE ExpandUp(_, _, _, _)
ExpandUp(d, index, keyword, end) ==
    IF end < Len(index) - 1 /\ starts_with(get_str(d, index[end + 2].key), keyword)
    THEN ExpandUp(d, index, keyword, end + 1)
    ELSE end

\* A range search that does not test the length of the keyword.
do_search_index_range_unguarded(d, keyword, full_match, index) ==
    LET c == Tup([i \in 1..Len(index) |->
                   RowCmp(d, index[i], keyword, full_match)])
    IN  {IF full_match THEN <<pos, pos>>
         ELSE <<ExpandDown(d, index, keyword, pos),
                ExpandUp(d, index, keyword, pos)>> : pos \in binary_search_by(c)}

\* DB::do_search_index_range: the ranges <<sta, end>> (0-based, inclusive) it
\* may return as Some; the empty set stands for None.
do_search_index_range(d, keyword, full_match, index) ==
    IF Len(keyword) > 0
    THEN LET c == Tup([i \in 1..Len(index) |->
                        RowCmp(d, index[i], keyword, full_match)])
         IN  {IF full_match THEN <<pos, pos>>
              ELSE <<ExpandDown(d, index, keyword, pos),
                     ExpandUp(d, index, keyword, pos)>> : pos \in binary_search_by(c)}
    ELSE {}

\* The term indexes the loop of do_search_index inserts for a range.
Inserted(d, index, r) == {d.index_prefix_jp[j + 1].term : j \in r[1]..r[2]}

\* ResultSet::iter: the indexes of the BTreeSet in ascending order.
iter(set) == SetToSortedSeq(set)

\* A loop that keeps only what this call found.
InsertAllReplacing(set, inserted) ==
    [out |-> inserted, ret |-> Cardinality(inserted)]

\* A loop that counts the terms of the range.
InsertAllCountingFound(set, inserted) ==
    [out |-> set \cup inserted, ret |-> Cardinality(inserted)]

\* The result set after the loop and out.len() - start_count.
InsertAll(set, inserted) ==
    [out |-> set \cup inserted,
     ret |-> Cardinality(set \cup inserted) - Cardinality(set)]

\* DB::do_search_index: the result set afterwards and the value returned.
do_search_index(d, keyword, full_match, index, set) ==
    LET rs == do_search_index_range(d, keyword, full_match, index)
    IN  IF rs = {}
        THEN {[out |-> set, ret |-> 0]}
        ELSE {InsertAll(set, Inserted(d, index, r)) : r \in rs}

\* The keywords the callers search for: "", "a", "b", "ab", "a" + U+0301.
Keywords == {<<>>, <<97>>, <<98>>, <<97, 98>>, <<97, 204, 129>>}

Searched(op, keyword, results) ==
    /\ db.loaded
    /\ \E r \in results :
        /\ out' = r.out
        /\ last' = [op |-> op, key |-> keyword, outcome |-> "returned",
                    ret |-> r.ret]
    /\ UNCHANGED <<writer_vars, phase, write_result, blob, db, check_result,
                   binary_search, overflow_checks>>

\* DB::search_term
SearchTerm(term) ==
    Searched("search_term", term,
             do_search_index(db, term, TRUE, db.index_prefix_jp, out))

\* DB::search_prefix
SearchPrefix(prefix) ==
    Searched("search_prefix", prefix,
             do_search_index(db, prefix, FALSE, db.index_prefix_jp, out))

\* search_suffix: the prefix search over the suffix index with the grapheme
\* reversal of the key.
SearchSuffix(suffix) ==
    Searched("search_suffix", suffix,
             do_search_index(db, RevGraphemes(suffix), FALSE,
                             db.index_suffix_jp, out))

Next ==
    \/ \E value \in Pool : Intern(value)
    \/ \E name \in TagNames : PushTag(name)
    \/ \E t \in TermInputs : PushTerm(t)
    \/ \E k \in KanjiInputs : PushKanji(k)
    \/ Write
    \/ Load
    \/ Check

\* The builder, the loader and the validator never search: one linked
\* implementation stands for all.
InitBuild == Init /\ binary_search = "halving" /\ ~overflow_checks

Spec == InitBuild /\ [][Next]_vars

\* The builders of the searched databases push terms only.
PushSearchTerm(t) ==
    /\ Len(terms) < MaxSearchTerms
    /\ PushTerm(t)

NextSearch ==
    \/ \E value \in Pool : Intern(value)
    \/ \E t \in TermInputs : PushSearchTerm(t)
    \/ Write
    \/ Load
    \/ \E k \in Keywords : SearchTerm(k)
    \/ \E k \in Keywords : SearchPrefix(k)
    \/ \E k \in Keywords : SearchSuffix(k)

InitSearch == Init /\ ~overflow_checks

SpecSearch == InitSearch /\ [][NextSearch]_vars

\* The written databases that reach the loader with their bytes changed.
NextBlob ==
    \/ \E value \in Pool : Intern(value)
    \/ \E t \in TermInputs : PushSearchTerm(t)
    \/ Write
    \/ \E edit \in Edits : LoadEdited(edit)
    \/ Check

SpecBlob == InitBuild /\ [][NextBlob]_vars

\* The same in builds with and without overflow checks.
InitChecked == Init /\ binary_search = "halving"

SpecChecked == InitChecked /\ [][NextBlob]_vars

\* The builders that are written to each of the sinks.
NextSink ==
    \/ \E value \in Pool : Intern(value)
    \/ \E t \in TermInputs : PushSearchTerm(t)
    \/ \E sink \in Sinks : WriteTo(sink)

SpecSink == InitBuild /\ [][NextSink]_vars

\* The builders whose tags are looked up by name.
NextTags ==
    \/ \E value \in Pool : Intern(value)
    \/ \E name \in TagNames : PushTag(name)
    \/ \E name \in TagQueries : GetTag(name)
    \/ \E n1, n2 \in TagQueries : GetTags(<<n1, n2>>)

SpecTags == InitBuild /\ [][NextTags]_vars

(***************************************************************************)
(* Properties of the builder, the written bytes and the loaded DB.         *)
(***************************************************************************)
TermIds(d) == 0..(Len(d.terms) - 1)

\* The string a handle references in the tables of d: StrHandle::range of its
\* entry of string_list, taken from string_data.
Referenced(d, h) ==
    Slice(d.string_data, range(d.string_list[h + 1])[1],
          range(d.string_list[h + 1])[2])

\* The key handles of the term at 0-based index t, and their strings.
FieldsOf(t) == <<t.expression, t.reading, t.search_key>>

KeysOf(d, t) == Range(FieldsOf(d.terms[t + 1]))

KeyStrings(d, t) == {get_str(d, h) : h \in KeysOf(d, t)}

ExactMatches(d, k) == {t \in TermIds(d) : k \in KeyStrings(d, t)}

PrefixMatches(d, k) == {t \in TermIds(d) : \E s \in KeyStrings(d, t) : IsPrefix(k, s)}

SuffixMatches(d, k) == {t \in TermIds(d) : \E s \in KeyStrings(d, t) : IsSuffix(k, s)}

RowCount(index, row) == Cardinality({i \in 1..Len(index) : index[i] = row})

FieldCount(t, h) == Cardinality({f \in 1..3 : FieldsOf(t)[f] = h})

RankGeq(a, b) ==
    \/ a.frequency > b.frequency
    \/ (a.frequency = b.frequency /\ a.score >= b.score)

SameRank(a, b) == a.frequency = b.frequency /\ a.score = b.score

Sequences(ts) == Tup([i \in 1..Len(ts) |-> ts[i].sequence])

Characters(ks) == Tup([i \in 1..Len(ks) |-> ks[i].character])

\* C1: for every builder state, the one with no terms included, write
\* completes and check on the DB loaded from the written bytes succeeds.
C1_RoundTrip ==
    /\ write_result # "panic"
    /\ check_result \in {"none", "ok"}

\* C2: search_term(k) on an empty result set, for a non-empty k, yields
\* exactly the terms one of whose expression, reading and search_key is k:
\* every term of the rows that share the key k.
C2_SearchTermExact ==
    db.loaded =>
        \A k \in Keywords \ {<<>>} :
            \A r \in do_search_index(db, k, TRUE, db.index_prefix_jp, {}) :
                r.out = ExactMatches(db, k)

\* C3: after search_prefix(k) with a non-empty k the result set holds every
\* term one of whose keys starts with k.
C3_PrefixComplete ==
    (last.op = "search_prefix" /\ last.key # <<>>) =>
        PrefixMatches(db, last.key) \subseteq out

\* A prefix search whose keyword is the prefix of keys of two terms, both
\* inserted by the call.
C3_Witness ==
    /\ last.op = "search_prefix"
    /\ last.key = <<97>>
    /\ Cardinality(PrefixMatches(db, last.key)) = 2
    /\ last.ret = 2
    /\ \E i \in DOMAIN db.index_prefix_jp :
        ~IsPrefix(last.key, get_str(db, db.index_prefix_jp[i].key))

\* C4: the suffix search for a non-empty k (the prefix-mode search over the
\* suffix index with the grapheme reversal of k) on an empty result set
\* yields exactly the terms one of whose keys ends with k.
C4_SuffixExact ==
    db.loaded =>
        \A k \in Keywords \ {<<>>} :
            \A r \in do_search_index(db, RevGraphemes(k), FALSE,
                                     db.index_suffix_jp, {}) :
                r.out = SuffixMatches(db, k)

\* C5: intern is idempotent: interning a value twice returns the same index
\* and the second call leaves string_list and string_data as they were;
\* intern("") is 0 and string_list[0] is (0, 0).
C5_InternIdempotent ==
    /\ InternIn(Arena, <<>>).index = 0
    /\ string_list[1] = <<0, 0>>
    /\ \A value \in Pool :
        LET first == InternIn(Arena, value)
            second == InternIn(first.arena, value)
        IN  /\ second.index = first.index
            /\ second.arena.list = first.arena.list
            /\ second.arena.data = first.arena.data

\* An arena with interned strings besides "" and a value not interned yet:
\* the first call appends for one value and finds the other.
C5_Witness ==
    /\ Len(string_list) > 2
    /\ \E value \in Pool : value \notin DOMAIN string_hash
    /\ \E value \in Pool : value # <<>> /\ value \in DOMAIN string_hash

\* C6: in the written terms, i < j implies that (frequency, score) of term i
\* is lexicographically at least that of term j.
C6_TermsByRelevance ==
    db.loaded =>
        \A i, j \in 1..Len(db.terms) :
            i < j => RankGeq(db.terms[i], db.terms[j])

\* Written terms that differ in frequency and terms of one frequency that
\* differ in score.
C6_Witness ==
    /\ db.loaded
    /\ \E i, j \in 1..Len(db.terms) :
        db.terms[i].frequency # db.terms[j].frequency
    /\ \E i, j \in 1..Len(db.terms) :
        /\ db.terms[i].frequency = db.terms[j].frequency
        /\ db.terms[i].score # db.terms[j].score

\* C7: the relevance sort is stable: in the written arrays the terms of equal
\* frequency and score, and the kanji of equal frequency, keep the order in
\* which they were pushed.
C7_StableSort ==
    [][(phase = "Open" /\ phase' = "Sealed" /\ write_result' = "ok") =>
        LET d == load(blob')
        IN  /\ \A i \in 1..Len(terms) :
                LET Same(t) == SameRank(t, terms[i])
                IN  Sequences(SelectSeq(d.terms, Same))
                        = Sequences(SelectSeq(terms, Same))
            /\ \A i \in 1..Len(kanji) :
                LET Same(k) == k.frequency = kanji[i].frequency
                IN  Characters(SelectSeq(d.kanji, Same))
                        = Characters(SelectSeq(kanji, Same))]_vars

\* Written terms of equal frequency and score that are different terms.
C7_Witness ==
    /\ db.loaded
    /\ \E i, j \in 1..Len(db.terms) :
        /\ i < j
        /\ SameRank(db.terms[i], db.terms[j])
        /\ db.terms[i].sequence # db.terms[j].sequence

\* C8: the written prefix index, and the suffix index, has for each term
\* exactly one row per non-empty key among expression, reading and
\* search_key, and no row whose key is the empty string (handle 0), the
\* terms with an empty expression included.
C8_OneRowPerNonEmptyKey ==
    db.loaded =>
        \A t \in TermIds(db) : \A h \in 0..(Len(db.string_list) - 1) :
            LET row == [key |-> h, term |-> t]
                rows == IF h = 0 THEN 0 ELSE FieldCount(db.terms[t + 1], h)
            IN  /\ RowCount(db.index_prefix_jp, row) = rows
                /\ RowCount(db.index_suffix_jp, row) = rows

\* C9 as stated: the key of every row of the written suffix index
\* dereferences to the grapheme reversal of a key of the row's term.
C9_SuffixKeysReversed ==
    db.loaded =>
        \A i \in DOMAIN db.index_suffix_jp :
            LET row == db.index_suffix_jp[i]
            IN  Referenced(db, row.key)
                    \in {RevGraphemes(Referenced(db, h)) : h \in KeysOf(db, row.term)}

\* C9 amended: the written suffix index holds the rows of the prefix index,
\* each with the handle of the original key of its term, in the order of the
\* grapheme reversals of those keys; write interns no string.
C9_SuffixKeysOriginal ==
    db.loaded =>
        /\ Len(db.index_suffix_jp) = Len(db.index_prefix_jp)
        /\ \A i \in DOMAIN db.index_suffix_jp :
            LET row == db.index_suffix_jp[i]
            IN  /\ row.term \in TermIds(db)
                /\ row.key \in KeysOf(db, row.term)
                /\ RowCount(db.index_suffix_jp, row)
                       = RowCount(db.index_prefix_jp, row)
        /\ \A i \in 1..(Len(db.index_suffix_jp) - 1) :
            StrLeq(RevGraphemes(Referenced(db, db.index_suffix_jp[i].key)),
                   RevGraphemes(Referenced(db, db.index_suffix_jp[i + 1].key)))
        /\ Len(db.string_list) = Len(string_list)
        /\ db.string_data = string_data

\* A written suffix index with a key whose reversal is no interned string,
\* in an order that is not the order of the prefix index.
C9_Witness ==
    /\ db.loaded
    /\ db.index_suffix_jp # db.index_prefix_jp
    /\ \E i \in DOMAIN db.index_suffix_jp :
        RevGraphemes(Referenced(db, db.index_suffix_jp[i].key))
            \notin DOMAIN string_hash

\* C10: adjacent rows of the written prefix index are in the byte order of
\* the strings of their keys.
C10_PrefixSorted ==
    db.loaded =>
        \A i \in 1..(Len(db.index_prefix_jp) - 1) :
            StrLeq(Referenced(db, db.index_prefix_jp[i].key),
                   Referenced(db, db.index_prefix_jp[i + 1].key))

\* A written prefix index in which the string order of two adjacent rows is
\* the opposite of the order of their handles.
C10_Witness ==
    /\ db.loaded
    /\ \E i \in 1..(Len(db.index_prefix_jp) - 1) :
        /\ db.index_prefix_jp[i].key > db.index_prefix_jp[i + 1].key
        /\ db.index_prefix_jp[i].key # 0
        /\ db.index_prefix_jp[i + 1].key # 0

\* C11: adjacent rows of the written suffix index are in the byte order of
\* the grapheme reversals of the strings of their keys, the empty string
\* before every other string.
C11_SuffixSorted ==
    db.loaded =>
        \A i \in 1..(Len(db.index_suffix_jp) - 1) :
            LET this == RevGraphemes(Referenced(db, db.index_suffix_jp[i].key))
                next == RevGraphemes(Referenced(db, db.index_suffix_jp[i + 1].key))
            IN  /\ StrLeq(this, next)
                /\ next = <<>> => this = <<>>

\* A written suffix index that begins with a row of the empty key and whose
\* order by the reversals is not the order of the unreversed strings.
C11_Witness ==
    /\ db.loaded
    /\ Len(db.index_suffix_jp) > 2
    /\ db.index_suffix_jp[1].key = 0
    /\ \E i \in 1..(Len(db.index_suffix_jp) - 1) :
        StrLess(Referenced(db, db.index_suffix_jp[i + 1].key),
                Referenced(db, db.index_suffix_jp[i].key))

\* The names a call of get_tag or get_tags was given.
NamesOf(call) == IF call.op = "get_tag" THEN {call.key} ELSE Range(call.key)

TagCalls == {"get_tag", "get_tags"}

\* C12 as stated: get_tag and get_tags given a name never passed to push_tag
\* return a failure value, they do not abort, and leave the builder as it was.
C12_UnknownTagReturned ==
    (last.op \in TagCalls /\ ~Registered(NamesOf(last))) =>
        /\ last.outcome = "returned"
        /\ phase = "Open"

\* C12 amended: get_tag and get_tags panic exactly when one of the names is
\* not a key of tag_index, the panic ends the program, a call that returns
\* gives the indexes of the names, and no call changes the tags, the terms,
\* the kanji or the string arena of the builder.
C12_UnknownTagPanics ==
    [][last' # last /\ last'.op \in TagCalls =>
        /\ UNCHANGED writer_vars
        /\ (last'.outcome = "panic") <=> ~Registered(NamesOf(last'))
        /\ (last'.outcome = "panic") <=> (phase' = "Panicked")
        /\ (last'.op = "get_tag" /\ last'.outcome = "returned") =>
                last'.ret = tag_index[last'.key]
        /\ (last'.op = "get_tags" /\ last'.outcome = "returned") =>
                last'.ret = Tup([i \in 1..Len(last'.key) |->
                                    tag_index[last'.key[i]]])]_vars

\* A builder with a pushed tag on which a lookup of a name never pushed has
\* panicked.
C12_Witness ==
    /\ last.op \in TagCalls
    /\ tags # <<>>
    /\ ~Registered(NamesOf(last))
    /\ last.outcome = "panic"

\* C13 as stated: load of a written blob without its last byte returns a DB
\* (and it is check that then reports the malformed section).
C13_TruncatedLoadReturns ==
    last.op = "load: truncated" => last.outcome = "returned"

\* C13, amended: load of a written blob without its last byte panics in
\* read_slice, so no DB exists and check is never run on it.
C13_TruncatedLoadPanics ==
    last.op = "load: truncated" =>
        /\ last.outcome = "panic"
        /\ ~db.loaded
        /\ check_result = "none"

C13_Witness ==
    /\ last.op = "load: truncated"
    /\ last.outcome = "panic"
    /\ Len(blob) > 0
    /\ ~load(blob).loaded

\* The orders of invariants 7, 8 and 10 on the tables of a DB.
TermsSorted(d) ==
    \A i, j \in 1..Len(d.terms) : i < j => RankGeq(d.terms[i], d.terms[j])

PrefixIndexSorted(d) ==
    \A i \in 1..(Len(d.index_prefix_jp) - 1) :
        StrLeq(Referenced(d, d.index_prefix_jp[i].key),
               Referenced(d, d.index_prefix_jp[i + 1].key))

SuffixIndexSorted(d) ==
    \A i \in 1..(Len(d.index_suffix_jp) - 1) :
        StrLeq(RevGraphemes(Referenced(d, d.index_suffix_jp[i].key)),
               RevGraphemes(Referenced(d, d.index_suffix_jp[i + 1].key)))

BucketsAscending(d) ==
    \A r \in DOMAIN d.index_chars_jp :
        LET bucket == VecItems(d, d.index_chars_jp[r].indexes)
        IN  \A i \in 1..(Len(bucket) - 1) : bucket[i] < bucket[i + 1]

OrderEdits == {"load: terms reversed", "load: prefix index reversed",
               "load: suffix index reversed", "load: bucket reversed"}

RowTerms(d) ==
    {d.index_prefix_jp[i].term : i \in DOMAIN d.index_prefix_jp}
        \cup {d.index_suffix_jp[i].term : i \in DOMAIN d.index_suffix_jp}

StatTags(d) ==
    UNION {LET items == VecItems(d, d.kanji[k].stats)
           IN  {items[2 * i - 1] : i \in 1..(Len(items) \div 2)}
           : k \in DOMAIN d.kanji}

\* C20: a blob that check accepts has every row's term index below
\* len(terms) and every stats tag handle below len(tags).
C20_CheckRejectsIndexAtLength ==
    check_result = "ok" =>
        /\ \A t \in RowTerms(db) : t < Len(db.terms)
        /\ \A t \in StatTags(db) : t < Len(db.tags)

PrefixSearches == {"search_term", "search_prefix"}

\* The rows of the prefix index of d whose key starts with k.
PrefixRows(d, k) ==
    {i \in DOMAIN d.index_prefix_jp :
        IsPrefix(k, Referenced(d, d.index_prefix_jp[i].key))}

\* C15: a call of search_term or search_prefix removes nothing from the
\* result set, and the iteration of the result set after it is strictly
\* ascending and yields each of its indexes once.
C15_ResultSetGrowsSorted ==
    [][last'.op \in PrefixSearches =>
        /\ out \subseteq out'
        /\ Len(iter(out')) = Cardinality(out')
        /\ Range(iter(out')) = out'
        /\ \A i \in 1..(Len(iter(out')) - 1) : iter(out')[i] < iter(out')[i + 1]
      ]_vars

\* A call that added to a result set in which earlier calls had left indexes.
C15_Witness ==
    /\ last.op \in PrefixSearches
    /\ last.ret > 0
    /\ Cardinality(out) > last.ret

C17_EmptyKeyFindsNothing ==
    [][(last'.op \in PrefixSearches /\ last'.key = <<>>) =>
        /\ out' = out
        /\ last'.ret = 0
      ]_vars

\* A search for the empty key on a DB whose prefix index has a row with the
\* empty key, the term of that row not being in the non-empty result set.
C17_Witness ==
    /\ last.op \in PrefixSearches
    /\ last.key = <<>>
    /\ last.ret = 0
    /\ out # {}
    /\ \E i \in DOMAIN db.index_prefix_jp :
        /\ Referenced(db, db.index_prefix_jp[i].key) = <<>>
        /\ db.index_prefix_jp[i].term \notin out

\* The vec-handles of the records of d, in the order write packs their lists.
VecHandles(d) ==
    Concat([i \in 1..Len(d.kanji) |->
              <<d.kanji[i].meanings, d.kanji[i].onyomi, d.kanji[i].kunyomi,
                d.kanji[i].tags, d.kanji[i].stats>>])
    \o Concat([i \in 1..Len(d.terms) |->
              <<d.terms[i].glossary, d.terms[i].rules, d.terms[i].term_tags,
                d.terms[i].definition_tags>>])
    \o Tup([i \in 1..Len(d.index_chars_jp) |-> d.index_chars_jp[i].indexes])

\* The number of elements the first n handles of hs name.
RECURSIVE Packed(_, _)
Packed(hs, n) == IF n = 0 THEN 0 ELSE Packed(hs, n - 1) + hs[n].length

\* C18: every empty list is written as the handle {0, 0} and takes no room
\* in vector_data, whatever was packed before it: each non-empty list starts
\* where the elements of the lists before it end.  Packing the empty list
\* after everything else changes nothing either, and {0, 0} names the empty
\* slice of an empty vector_data too.
C18_EmptyListPacksToZero ==
    db.loaded =>
        /\ \A i \in 1..Len(VecHandles(db)) :
            LET h == VecHandles(db)[i]
            IN  IF h.length = 0
                THEN h = NoVec
                ELSE h.offset = Packed(VecHandles(db), i - 1)
        /\ Len(db.vector_data) = Packed(VecHandles(db), Len(VecHandles(db)))
        /\ push_vec(db.vector_data, <<>>) = [handle |-> NoVec, data |-> db.vector_data]
        /\ push_vec(<<>>, <<>>) = [handle |-> NoVec, data |-> <<>>]
        /\ VecItems(db, NoVec) = <<>>
        /\ VecItems([vector_data |-> <<>>], NoVec) = <<>>

\* A written term whose empty lists follow its non-empty glossary in the
\* packing order.
C18_Witness ==
    /\ db.loaded
    /\ \E i \in 1..Len(db.terms) :
        /\ db.terms[i].glossary.length > 0
        /\ db.terms[i].rules = NoVec
        /\ db.terms[i].term_tags.length > 0
        /\ db.terms[i].term_tags.offset > 0

\* The code points of the expression and the reading of a term of d.
ExpressionChars(d, t) ==
    CharSet(Referenced(d, t.expression)) \cup CharSet(Referenced(d, t.reading))

\* C19: the written per-character index has one row for each code point of
\* the expression or the reading of some term and no other row, and the
\* bucket of a row lists, strictly ascending, the indexes in the sorted term
\* array of exactly the terms whose expression or reading has the code point.
C19_CharsIndexExact ==
    db.loaded =>
        LET rows == db.index_chars_jp
        IN  /\ \A i, j \in DOMAIN rows :
                i # j => rows[i].character # rows[j].character
            /\ {rows[i].character : i \in DOMAIN rows}
                    = UNION {ExpressionChars(db, db.terms[t]) : t \in DOMAIN db.terms}
            /\ \A i \in DOMAIN rows :
                LET bucket == VecItems(db, rows[i].indexes)
                IN  /\ \A k \in 1..(Len(bucket) - 1) : bucket[k] < bucket[k + 1]
                    /\ Range(bucket) =
                            {t - 1 : t \in {u \in DOMAIN db.terms :
                                rows[i].character \in ExpressionChars(db, db.terms[u])}}

\* A written DB with a bucket of several terms and a term whose search_key
\* has a code point that has no row.
C19_Witness ==
    /\ db.loaded
    /\ \E i \in DOMAIN db.index_chars_jp : db.index_chars_jp[i].indexes.length > 1
    /\ \E t \in DOMAIN db.terms :
        \E c \in CharSet(Referenced(db, db.terms[t].search_key)) :
            \A i \in DOMAIN db.index_chars_jp : db.index_chars_jp[i].character # c

\* C21: every row (key, i) of the written prefix and suffix indexes names a
\* position of the written terms array, and the term at that position has
\* key as its expression, reading or search_key.
C21_RowsUsePostSortIndex ==
    db.loaded =>
        \A row \in Range(db.index_prefix_jp) \cup Range(db.index_suffix_jp) :
            /\ row.term < Len(db.terms)
            /\ row.key \in KeysOf(db, row.term)

\* Written terms that the relevance sort has put in another order than that
\* of their sequence numbers, with rows whose key only the first of them has.
C21_Witness ==
    /\ db.loaded
    /\ \E i, j \in 1..Len(db.terms) :
        /\ i < j
        /\ db.terms[i].sequence > db.terms[j].sequence
        /\ ~SameRank(db.terms[i], db.terms[j])
        /\ \E row \in Range(db.index_prefix_jp) :
            row.term = i - 1 /\ row.key \notin KeysOf(db, j - 1)
        /\ \E row \in Range(db.index_suffix_jp) :
            row.term = i - 1 /\ row.key \notin KeysOf(db, j - 1)

SinkWrites == {"write: " \o sink : sink \in Sinks}

\* The blobs of the sealed builder: Raw::write of its records into a sink
\* that takes every byte, for each iteration order of the character map.
WholeBlobs ==
    LET index_prefix_jp == BuildPrefixIndex(terms)
        index_chars_jp == BuildCharsIndex(terms)
    IN  {RawWrite(BuildRaw(terms, kanji, index_prefix_jp,
                           BuildSuffixIndex(index_prefix_jp), index_chars_jp, order))
            : order \in IterationOrders(DOMAIN index_chars_jp)}

\* C22: when write returns Ok the sink has received exactly the nine sections
\* of the blob, whatever the sink; when the sink returns an error, write
\* returns the error.
C22_SinkReceivesBlob ==
    (last.op \in SinkWrites /\ last.outcome = "returned") =>
        /\ write_result = "ok" => blob \in WholeBlobs
        /\ last.op = "write: failing" => write_result = "err"

\* C23: for every range that the range search finds in the index it is
\* given, the prefix index or the suffix index, do_search_index inserts
\* exactly the terms of the rows of that index in the range.
C23_InsertsRowsOfGivenIndex ==
    db.loaded =>
        \A index \in {db.index_prefix_jp, db.index_suffix_jp} :
            \A keyword \in Keywords : \A full_match \in BOOLEAN :
                \A r \in do_search_index_range(db, keyword, full_match, index) :
                    InsertAll({}, Inserted(db, index, r)).out
                        = {index[j + 1].term : j \in r[1]..r[2]}

\* C24: write is deterministic: the blob written for a builder is the only
\* blob that write can produce for it, the order of the rows of the
\* character index and the places of their buckets included.
C24_WriteDeterministic ==
    write_result = "ok" => WholeBlobs = {blob}

\* The lists of the sealed builder in the order write packs them: those of
\* the kanji, those of the terms, and the buckets of the rows of the
\* character index of d.
PackedLists(d) ==
    Concat([i \in 1..Len(kanji) |-> KanjiLists(kanji[i])])
    \o Concat([i \in 1..Len(terms) |-> TermLists(terms[i])])
    \o Tup([i \in 1..Len(d.index_chars_jp) |->
            SetToSortedSeq(BuildCharsIndex(terms)[d.index_chars_jp[i].character])])

\* C25: in the written DB the slice of vector_data at the handle of each
\* packed list is that list, the ranges of two non-empty lists do not
\* overlap, and vector_data is as long as all the lists together.
C25_ListsRecovered ==
    db.loaded =>
        LET hs == VecHandles(db)
            lists == PackedLists(db)
        IN  /\ Len(hs) = Len(lists)
            /\ \A i \in 1..Len(hs) : VecItems(db, hs[i]) = lists[i]
            /\ \A i, j \in 1..Len(hs) :
                (i < j /\ hs[i].length > 0 /\ hs[j].length > 0) =>
                    \/ range(hs[i])[2] <= range(hs[j])[1]
                    \/ range(hs[j])[2] <= range(hs[i])[1]
            /\ Len(db.vector_data) = Packed(hs, Len(hs))

\* A written DB with the flattened stats of a kanji, the glossary and the
\* tags of a term and a bucket in vector_data.
C25_Witness ==
    /\ db.loaded
    /\ \E i \in 1..Len(db.kanji) :
        /\ db.kanji[i].stats.length = 2
        /\ db.kanji[i].meanings.length > 0
    /\ \E i \in 1..Len(db.terms) :
        /\ db.terms[i].glossary.length > 0
        /\ db.terms[i].term_tags.length > 0
        /\ db.terms[i].term_tags.offset > db.terms[i].glossary.offset
    /\ \E i \in 1..Len(db.index_chars_jp) :
        db.index_chars_jp[i].indexes.offset > 0

\* The handles issued so far.
Handles == 0..(Len(string_list) - 1)

\* The arena of the builder names each interned string by its own handle,
\* the handles are 0, 1, ... without a gap, and the ranges of string_list
\* follow one another from 0 to the end of string_data.
ArenaConsistent ==
    /\ \A value \in DOMAIN string_hash :
        /\ string_hash[value] \in Handles
        /\ string(string_hash[value]) = value
    /\ {string_hash[value] : value \in DOMAIN string_hash} = Handles
    /\ \A h1, h2 \in Handles : h1 # h2 => string(h1) # string(h2)
    /\ string_list[1][1] = 0
    /\ \A i \in 1..(Len(string_list) - 1) :
        string_list[i + 1][1] = string_list[i][1] + string_list[i][2]
    /\ string_list[Len(string_list)][1] + string_list[Len(string_list)][2]
            = Len(string_data)

\* No step changes the handle of an interned string or the string a handle
\* names.
HandlesKept ==
    /\ \A value \in DOMAIN string_hash :
        /\ value \in DOMAIN string_hash'
        /\ string_hash'[value] = string_hash[value]
    /\ \A h \in Handles :
        StringOf(string_list', string_data', h) = string(h)

\* C26: in every state of the builder string(h) is the string whose
\* interning returned h, now and after every later call; distinct handles
\* name distinct strings; the handles are issued consecutively from 0; and
\* the ranges of string_list tile string_data.
C26_ArenaConsistent == []ArenaConsistent /\ [][HandlesKept]_vars

\* An arena with every string of the callers interned, the longer one before
\* its prefix.
C26_Witness ==
    /\ DOMAIN string_hash = Pool
    /\ string_hash[<<97, 98>>] < string_hash[<<97>>]
    /\ Len(string_data) = 7

\* The handles whose range check looks at: the entries of string_list with
\* the length of string_data, the vec-handles with that of vector_data.
RangedHandles(d) ==
    {<<d.string_list[i], Len(d.string_data)>> : i \in DOMAIN d.string_list}
        \cup {<<h, Len(d.vector_data)>> : h \in Range(VecHandles(d))}

\* C27: for every handle of a DB that check accepts, offset + length, the
\* sum itself and not the sum modulo 2^32, is at most the length of the data
\* the handle indexes.
C27_RangesWithoutWraparound ==
    check_result = "ok" =>
        \A r \in RangedHandles(db) :
            /\ r[1].offset >= 0
            /\ r[1].length >= 0
            /\ r[1].length <= r[2] - r[1].offset

====
